---- MODULE Spec2Model ----
(***************************************************************************)
(* Model of zeroinstall.injector.handler.Handler (download coordination    *)
(* under the GLib main loop, trust confirmation) and of the binding stage  *)
(* of zeroinstall.injector.run.                                            *)
(***************************************************************************)
EXTENDS Integers, Sequences, FiniteSets, TLC

(* ---------------- bounds ---------------- *)
\* number of Download objects ever constructed in one behaviour
MaxDownloads == 3
\* depth of nested callbacks / nested main loops
MaxDepth == 3

URLS == {"u1", "u2"}
\* Python's None; Download objects are numbered from 1
None == 0

VARIABLES
    downloads,            \* heap of download.Download objects: <<[url, status]>>
    monitored_downloads,  \* Handler.monitored_downloads: URL -> Download
    watches,              \* Downloads whose error stream has a gobject io watch
    loop,                 \* Handler._loop: "None", or the MainLoop's state
    stack,                \* call stack: nested loop.run() and close handlers
    calls,                \* calls the last handler step made on its collaborators
    last,                 \* what the last handler step was and how it ended
    shared,               \* URL -> Download last returned by get_download(force=False)
    eofSince,             \* URL -> an end-of-stream was handled since then
    replacement,          \* Downloads started by a forced restart of a tracked URL
    trust_db,             \* trust.trust_db: set of <<fingerprint, domain>>
    confirm,              \* the confirm_trust_keys call: where it is, what it did
    selections,           \* the Selections handed to execute_selections
    environ,              \* os.environ: variable name -> list of path entries
    applied,              \* runs of the binding stage so far, os.environ after the first
    launch                \* the execute_selections / test_selections call and how it ended

handlerVars == <<downloads, monitored_downloads, watches, loop, stack, calls, last,
                 shared, eofSince, replacement>>
trustVars == <<trust_db, confirm>>
runVars == <<selections, environ, applied, launch>>
vars == <<handlerVars, trustVars, runVars>>

HandlerIdle == UNCHANGED handlerVars
TrustIdle == UNCHANGED trustVars
RunIdle == UNCHANGED runVars

(* ---------------- the heap the Handler works on ---------------- *)
Heap == [downloads |-> downloads, monitored_downloads |-> monitored_downloads,
         watches |-> watches, calls |-> <<>>]

Call(name, dl) == <<name, dl>>

\* dict[key] = value
SetItem(dict, key, value) ==
    [k \in DOMAIN dict \cup {key} |-> IF k = key THEN value ELSE dict[k]]

\* del dict[key]
DelItem(dict, key) == [k \in DOMAIN dict \ {key} |-> dict[k]]

\* download.Download(url): a new object, not yet started
Download(h, url) ==
    [h EXCEPT !.downloads = Append(@, [url |-> url, status |-> "created"]),
              !.calls = Append(@, Call("Download", Len(h.downloads) + 1))]

\* Download.start(): the transfer runs and its error stream is open
start(h, dl) ==
    [h EXCEPT !.downloads[dl].status = "downloading",
              !.calls = Append(@, Call("start", dl))]

\* Download.abort(): the transfer is stopped; its stream and its watch are released
abort(h, dl) ==
    [h EXCEPT !.downloads[dl].status = "aborted",
              !.watches = @ \ {dl},
              !.calls = Append(@, Call("abort", dl))]

\* Handler.monitor_download(dl)
monitor_download(h, dl) ==
    LET started == start(h, dl)
    IN [started EXCEPT
          !.monitored_downloads = SetItem(@, h.downloads[dl].url, dl),
          !.watches = @ \cup {dl},
          !.calls = Append(@, Call("io_add_watch", dl))]

\* get_download without the table lookup: every call starts a Download
get_download_no_lookup(h, url, force) ==
    LET h2 == Download(h, url)
        new == Len(h2.downloads)
    IN [h |-> monitor_download(h2, new), ret |-> new]

\* get_download that starts the replacement before it aborts the old Download
get_download_abort_last(h, url, force) ==
    LET found == url \in DOMAIN h.monitored_downloads
        dl == h.monitored_downloads[url]
    IN IF found /\ ~(dl # None /\ force)
       THEN [h |-> h, ret |-> dl]
       ELSE LET h1 == Download(h, url)
                new == Len(h1.downloads)
                h2 == monitor_download(h1, new)
            IN [h |-> IF found THEN abort(h2, dl) ELSE h2, ret |-> new]

\* Handler.get_download(url, force): the heap afterwards and the object returned
get_download(h, url, force) ==
    LET found == url \in DOMAIN h.monitored_downloads
        dl == h.monitored_downloads[url]
    IN IF found /\ ~(dl # None /\ force)
       THEN [h |-> h, ret |-> dl]
       ELSE LET h1 == IF found THEN abort(h, dl) ELSE h
                h2 == Download(h1, url)
                new == Len(h2.downloads)
            IN [h |-> monitor_download(h2, new), ret |-> new]

(* ---------------- call stack ---------------- *)
WaitFrame == [kind |-> "wait", dl |-> None]
CloseFrame(dl) == [kind |-> "close", dl |-> dl]

Top == IF stack = <<>> THEN [kind |-> "host", dl |-> None] ELSE stack[Len(stack)]
Pop == SubSeq(stack, 1, Len(stack) - 1)

\* a wait_for_downloads call whose loop.run() has not returned
WaitActive == \E i \in 1..Len(stack) : stack[i].kind = "wait"

\* Downloads whose _error_stream_ready call is on the stack
InCallback == {stack[i].dl : i \in {j \in 1..Len(stack) : stack[j].kind = "close"}}

\* a main loop (the host's or the nested one) is dispatching sources
Dispatching == Top.kind \in {"host", "wait"}

\* the record of one handler step; nested, empty, again and eof describe the
\* state the step started in
Op(op, url, force, dl, prior, outcome) ==
    [op |-> op, url |-> url, force |-> force, dl |-> dl, prior |-> prior,
     outcome |-> outcome,
     nested |-> WaitActive,
     empty |-> (DOMAIN monitored_downloads = {}),
     again |-> IF url \in URLS THEN shared[url] ELSE None,
     eof |-> IF url \in URLS THEN eofSince[url] ELSE FALSE]

StoreHeap(h) ==
    /\ downloads' = h.downloads
    /\ monitored_downloads' = h.monitored_downloads
    /\ watches' = h.watches
    /\ calls' = h.calls

Tracked(url) ==
    IF url \in DOMAIN monitored_downloads THEN monitored_downloads[url] ELSE None

(* ---------------- operations ---------------- *)
NoConfirm == [pc |-> "idle", uri |-> <<>>, sigs |-> <<>>, outcome |-> "none",
              calls |-> <<>>, prompts |-> 0, answer |-> <<>>, db0 |-> {}]

InitTrustDb ==
    /\ trust_db = {}
    /\ confirm = NoConfirm

\* no program is being launched
NoSelections == [interface |-> "", order |-> <<>>, selections |-> <<>>]

\* the result of _execute before it has run
NoResult == [outcome |-> "none", main |-> <<>>, prog_path |-> <<>>,
             command |-> <<>>, error |-> <<>>, trace |-> <<>>]

\* neither execute_selections nor test_selections has been called
NoLaunch == [fn |-> "none", prog_args |-> <<>>, dry_run |-> FALSE, main |-> <<>>,
             wrapper |-> <<>>, passed |-> <<>>, exists |-> FALSE, execl |-> "ok",
             result |-> NoResult]

InitRun ==
    /\ selections = NoSelections
    /\ environ = <<>>
    /\ applied = [runs |-> 0, start |-> <<>>, once |-> <<>>]
    /\ launch = NoLaunch

InitHandler ==
    /\ downloads = <<>>
    /\ monitored_downloads = <<>>
    /\ watches = {}
    /\ loop = "None"
    /\ stack = <<>>
    /\ calls = <<>>
    /\ last = Op("init", "", FALSE, None, None, "return")
    /\ shared = [u \in URLS |-> None]
    /\ eofSince = [u \in URLS |-> FALSE]
    /\ replacement = {}

Init ==
    /\ InitHandler
    /\ InitTrustDb
    /\ InitRun

\* a caller constructs a Download for url and hands it to monitor_download
CallMonitorDownload(url) ==
    /\ TrustIdle
    /\ RunIdle
    /\ Len(downloads) < MaxDownloads
    /\ LET h == Download(Heap, url)
           dl == Len(h.downloads)
       IN /\ StoreHeap(monitor_download(h, dl))
          /\ last' = Op("monitor_download", url, FALSE, dl, Tracked(url), "return")
    /\ shared' = [shared EXCEPT ![url] = None]
    /\ eofSince' = [eofSince EXCEPT ![url] = FALSE]
    /\ UNCHANGED <<loop, stack, replacement>>

CallGetDownload(url, force) ==
    /\ TrustIdle
    /\ RunIdle
    /\ LET r == get_download(Heap, url, force)
       IN /\ Len(r.h.downloads) <= MaxDownloads
          /\ StoreHeap(r.h)
          /\ last' = Op("get_download", url, force, r.ret, Tracked(url), "return")
          /\ shared' = [shared EXCEPT ![url] = IF force THEN None ELSE r.ret]
          /\ replacement' = IF force /\ Tracked(url) # None
                            THEN replacement \cup {r.ret} ELSE replacement
    /\ eofSince' = [eofSince EXCEPT ![url] = FALSE]
    /\ UNCHANGED <<loop, stack>>

\* _error_stream_ready, os.read returned data
ErrorStreamData(dl) ==
    /\ TrustIdle
    /\ RunIdle
    /\ Dispatching
    /\ dl \in watches \ InCallback
    /\ downloads[dl].status = "downloading"
    /\ calls' = <<Call("error_stream_data", dl)>>
    /\ last' = Op("error_stream_ready", downloads[dl].url, FALSE, dl,
                  Tracked(downloads[dl].url), "True")
    /\ UNCHANGED <<downloads, monitored_downloads, watches, loop, stack,
                   shared, eofSince, replacement>>

\* _error_stream_ready, os.read returned nothing: up to the call of the close handler
ErrorStreamEof(dl) ==
    /\ TrustIdle
    /\ RunIdle
    /\ Dispatching
    /\ Len(stack) < MaxDepth
    /\ dl \in watches \ InCallback
    /\ downloads[dl].status = "downloading"
    /\ LET url == downloads[dl].url
       IN /\ eofSince' = [eofSince EXCEPT ![url] = TRUE]
          /\ IF url \in DOMAIN monitored_downloads
             THEN /\ monitored_downloads' = DelItem(monitored_downloads, url)
                  /\ downloads' = [downloads EXCEPT ![dl].status = "closed"]
                  /\ stack' = Append(stack, CloseFrame(dl))
                  /\ calls' = <<Call("error_stream_closed", dl)>>
                  /\ last' = Op("error_stream_ready", url, FALSE, dl, Tracked(url),
                                "closing")
                  /\ UNCHANGED watches
             ELSE \* del raises KeyError: the callback dies, GLib drops the watch
                  /\ downloads' = [downloads EXCEPT ![dl].status = "eof"]
                  /\ watches' = watches \ {dl}
                  /\ calls' = <<>>
                  /\ last' = Op("error_stream_ready", url, FALSE, dl, None, "KeyError")
                  /\ UNCHANGED <<monitored_downloads, stack>>
    /\ UNCHANGED <<loop, shared, replacement>>

\* an except clause that drops the exception
except_clause_silent(raised, dl) == <<>>

\* except Exception, ex: self.report_error(ex)
except_clause(raised, dl) ==
    IF raised THEN <<Call("report_error", dl)>> ELSE <<>>

\* a test that tells the loop to quit while Downloads are left in the table
quit_test_not_empty(lp, table) == lp # "None" /\ DOMAIN table # {}

\* if self._loop and not self.monitored_downloads
quit_test(lp, table) == lp # "None" /\ DOMAIN table = {}

\* the close handler returns (or raises); the rest of _error_stream_ready
CloseHandlerDone(raised) ==
    /\ TrustIdle
    /\ RunIdle
    /\ Top.kind = "close"
    /\ LET dl == Top.dl
           quit == quit_test(loop, monitored_downloads)
       IN /\ stack' = Pop
          /\ watches' = watches \ {dl}
          /\ loop' = IF quit THEN "quit" ELSE loop
          /\ calls' = except_clause(raised, dl)
                      \o (IF quit THEN <<Call("quit", dl)>> ELSE <<>>)
          /\ last' = Op("close_done", downloads[dl].url, raised, dl, None,
                        IF quit THEN "quit" ELSE "False")
    /\ UNCHANGED <<downloads, monitored_downloads, shared, eofSince, replacement>>

\* wait_for_downloads without the assertion on _loop
wait_for_downloads_no_assert(table, lp) ==
    IF DOMAIN table # {} THEN "run" ELSE "return"

\* wait_for_downloads without the test for an empty table
wait_for_downloads_no_test(table, lp) ==
    IF lp = "None" THEN "run" ELSE "AssertionError"

\* Handler.wait_for_downloads: which way the call goes
wait_for_downloads(table, lp) ==
    IF DOMAIN table # {}
    THEN IF lp = "None" THEN "run" ELSE "AssertionError"
    ELSE "return"

CallWaitForDownloads ==
    /\ TrustIdle
    /\ RunIdle
    /\ Len(stack) < MaxDepth
    /\ LET outcome == wait_for_downloads(monitored_downloads, loop)
       IN /\ last' = Op("wait_for_downloads", "", FALSE, None, None, outcome)
          /\ IF outcome = "run"
             THEN /\ loop' = "running"
                  /\ stack' = Append(stack, WaitFrame)
                  /\ calls' = <<Call("MainLoop", None), Call("run", None)>>
             ELSE /\ calls' = <<>>
                  /\ UNCHANGED <<loop, stack>>
    /\ UNCHANGED <<downloads, monitored_downloads, watches, shared, eofSince,
                   replacement>>

\* loop.run() returns after quit(); the finally clause resets _loop
WaitReturn ==
    /\ TrustIdle
    /\ RunIdle
    /\ Top.kind = "wait"
    /\ loop = "quit"
    /\ loop' = "None"
    /\ stack' = Pop
    /\ calls' = <<>>
    /\ last' = Op("wait_return", "", FALSE, None, None, "return")
    /\ UNCHANGED <<downloads, monitored_downloads, watches, shared, eofSince,
                   replacement>>

\* loop.run() is left by an exception (KeyboardInterrupt); the finally
\* clause resets _loop on this way out too
WaitInterrupted ==
    /\ TrustIdle
    /\ RunIdle
    /\ Top.kind = "wait"
    /\ loop' = "None"
    /\ stack' = Pop
    /\ calls' = <<>>
    /\ last' = Op("wait_return", "", FALSE, None, None, "KeyboardInterrupt")
    /\ UNCHANGED <<downloads, monitored_downloads, watches, shared, eofSince,
                   replacement>>

Next ==
    \/ \E url \in URLS : CallMonitorDownload(url)
    \/ \E url \in URLS, force \in BOOLEAN : CallGetDownload(url, force)
    \/ \E dl \in watches : ErrorStreamData(dl)
    \/ \E dl \in watches : ErrorStreamEof(dl)
    \/ \E raised \in BOOLEAN : CloseHandlerDone(raised)
    \/ CallWaitForDownloads
    \/ WaitReturn
    \/ WaitInterrupted

Spec == Init /\ [][Next]_vars

\* the main loop dispatches every ready source, every callback returns, and
\* run() returns once quit() was called
Fairness ==
    /\ \A dl \in 1..MaxDownloads : WF_vars(ErrorStreamEof(dl))
    /\ WF_vars(\E raised \in BOOLEAN : CloseHandlerDone(raised))
    /\ WF_vars(WaitReturn)

SpecLive == Init /\ [][Next]_vars /\ Fairness

(* ================= Handler.confirm_trust_keys ================= *)
\* length of the signature list handed to confirm_trust_keys
MaxSigs == 2
\* answers read by raw_input within one confirm_trust_keys call
MaxPrompts == 2

\* interface URIs: <<scheme, authority, path>>
URIS == {<<"http", "a.org", "/x.xml">>, <<"http", "a.org", "/z.xml">>,
         <<"http", "b.org", "/y.xml">>}

\* results of gpg.check_stream: ValidSig objects and others (BadSig, ErrSig)
SIGS == {[valid |-> TRUE, fingerprint |-> "k1"],
         [valid |-> TRUE, fingerprint |-> "k2"],
         [valid |-> FALSE, fingerprint |-> "k3"]}

SigLists == UNION {[1..n -> SIGS] : n \in 0..MaxSigs}

\* lines typed at the prompt, as sequences of characters
ANSWERS == {<<>>, <<"Y">>, <<"y">>, <<"N">>, <<"n">>, <<"N", "n">>, <<"Y", "y">>,
            <<"n", "o">>, <<"y", "e", "s">>}

\* Python's `i in s` on strings
InString(i, s) ==
    \E k \in 0..(Len(s) - Len(i)) : SubSeq(s, k + 1, k + Len(i)) = i

\* trust.domain_from_url(uri)
domain_from_url(uri) == uri[2]

\* [s for s in sigs if isinstance(s, gpg.ValidSig)]
valid_sigs(sigs) == SelectSeq(sigs, LAMBDA s : s.valid)

\* confirm_trust_keys without `if not valid_sigs: raise`
confirm_check_no_raise(sigs) ==
    IF sigs = <<>> THEN "AssertionError" ELSE "prompt"

\* confirm_trust_keys up to the prompt
confirm_check(sigs) ==
    IF sigs = <<>> THEN "AssertionError"
    ELSE IF valid_sigs(sigs) = <<>>
         THEN "SafeException: No valid signatures found"
         ELSE "prompt"

\* the loop with the test for 'Nn' left out
read_answer_no_refusal(i) ==
    IF i = <<>> THEN "continue"
    ELSE IF InString(i, <<"Y", "y">>) THEN "break"
    ELSE "continue"

\* one round of the `while True` loop on the line i read by raw_input
read_answer(i) ==
    IF i = <<>> THEN "continue"
    ELSE IF InString(i, <<"N", "n">>) THEN "raise"
    ELSE IF InString(i, <<"Y", "y">>) THEN "break"
    ELSE "continue"

\* trust.trust_db.trust_key(fingerprint, domain)
trust_key(t, fingerprint, domain) ==
    [db |-> t.db \cup {<<fingerprint, domain>>},
     calls |-> Append(t.calls, <<"trust_key", fingerprint, domain>>)]

\* trust.trust_db.notify()
notify(t) == [t EXCEPT !.calls = Append(@, <<"notify">>)]

\* for key in valid_sigs: trust_key(key.fingerprint, domain)
RECURSIVE trust_each(_, _, _)
trust_each(t, keys, domain) ==
    IF keys = <<>> THEN t
    ELSE trust_each(trust_key(t, Head(keys).fingerprint, domain), Tail(keys), domain)

\* the tail with notify() called for each key
trust_and_notify_each(db, sigs, uri) ==
    LET keys == valid_sigs(sigs)
        step(t, i) == notify(trust_key(t, keys[i].fingerprint, domain_from_url(uri)))
        run[i \in 0..Len(keys)] ==
            IF i = 0 THEN [db |-> db, calls |-> <<>>] ELSE step(run[i - 1], i)
    IN run[Len(keys)]

\* the tail of confirm_trust_keys, after the loop was left by `break`
trust_and_notify(db, sigs, uri) ==
    notify(trust_each([db |-> db, calls |-> <<>>], valid_sigs(sigs),
                      domain_from_url(uri)))

CallConfirmTrustKeys(uri, sigs) ==
    /\ confirm.pc = "idle"
    /\ LET outcome == confirm_check(sigs)
       IN confirm' = [pc |-> IF outcome = "prompt" THEN "prompt" ELSE "idle",
                      uri |-> uri, sigs |-> sigs, outcome |-> outcome,
                      calls |-> <<>>, prompts |-> 0, answer |-> <<>>,
                      db0 |-> trust_db]
    /\ UNCHANGED trust_db
    /\ HandlerIdle
    /\ RunIdle

\* raw_input returns the line i
RawInput(i) ==
    /\ confirm.pc = "prompt"
    /\ confirm.prompts < MaxPrompts
    /\ LET r == read_answer(i)
           t == trust_and_notify(trust_db, confirm.sigs, confirm.uri)
       IN CASE r = "continue" ->
                 /\ confirm' = [confirm EXCEPT !.prompts = @ + 1, !.answer = i]
                 /\ UNCHANGED trust_db
            [] r = "raise" ->
                 /\ confirm' = [confirm EXCEPT
                       !.pc = "idle", !.prompts = @ + 1, !.answer = i,
                       !.outcome = "SafeException: Not signed with a trusted key"]
                 /\ UNCHANGED trust_db
            [] r = "break" ->
                 /\ confirm' = [confirm EXCEPT
                       !.pc = "idle", !.prompts = @ + 1, !.answer = i,
                       !.outcome = "return", !.calls = t.calls]
                 /\ trust_db' = t.db
    /\ HandlerIdle
    /\ RunIdle

\* raw_input hits the end of standard input
RawInputEof ==
    /\ confirm.pc = "prompt"
    /\ confirm' = [confirm EXCEPT !.pc = "idle", !.outcome = "EOFError"]
    /\ UNCHANGED trust_db
    /\ HandlerIdle
    /\ RunIdle

NextTrust ==
    \/ \E uri \in URIS, sigs \in SigLists : CallConfirmTrustKeys(uri, sigs)
    \/ \E i \in ANSWERS : RawInput(i)
    \/ RawInputEof

SpecTrust == Init /\ [][NextTrust]_vars

(* ======================= claims on confirm_trust_keys ======================= *)
NoValid(sigs) == \A k \in 1..Len(sigs) : ~sigs[k].valid
Asked == confirm.outcome # "none"
NoTrustWritten == confirm.calls = <<>> /\ trust_db = confirm.db0

\* C7 (as stated): confirm_trust_keys on a list without a valid signature, the
\* empty list included, fails with 'No valid signatures found' and calls
\* neither trust_key nor notify
C7_NoValidAlwaysSafeException ==
    (Asked /\ NoValid(confirm.sigs))
        => /\ confirm.outcome = "SafeException: No valid signatures found"
           /\ NoTrustWritten

\* C7 (amended): confirm_trust_keys on a non-empty list without a valid
\* signature fails with 'No valid signatures found'; on the empty list it
\* fails the assertion `assert sigs`; either way it never prompts and calls
\* neither trust_key nor notify
C7_NoValidFails ==
    (Asked /\ NoValid(confirm.sigs))
        => /\ confirm.outcome =
                 (IF confirm.sigs = <<>> THEN "AssertionError"
                  ELSE "SafeException: No valid signatures found")
           /\ confirm.pc = "idle"
           /\ confirm.prompts = 0
           /\ NoTrustWritten

C7_Witness ==
    /\ confirm.sigs # <<>> /\ NoValid(confirm.sigs)
    /\ confirm.outcome = "SafeException: No valid signatures found"
    /\ trust_db # {}

\* C8: when confirm_trust_keys returns (a valid signature, answer in 'Yy') it
\* has called trust_key(fingerprint, domain_from_url(interface.uri)) once for
\* each valid signature, in list order, for no other signature, and then
\* notify() exactly once as the last call
C8_TrustEveryValidThenNotify ==
    (confirm.outcome = "return")
        => LET keys == SelectSeq(confirm.sigs, LAMBDA s : s.valid)
               n == Len(keys)
           IN /\ n >= 1
              /\ Len(confirm.calls) = n + 1
              /\ \A k \in 1..n :
                    confirm.calls[k] =
                        <<"trust_key", keys[k].fingerprint, confirm.uri[2]>>
              /\ confirm.calls[n + 1] = <<"notify">>
              /\ trust_db = confirm.db0 \cup
                    {<<keys[k].fingerprint, confirm.uri[2]>> : k \in 1..n}

C8_Witness ==
    /\ confirm.outcome = "return"
    /\ Len(confirm.calls) = 2
    /\ confirm.prompts = 2
    /\ \E k \in 1..Len(confirm.sigs) : ~confirm.sigs[k].valid

\* C9 (as stated): with a valid signature, a negative or an empty answer
\* makes confirm_trust_keys fail with 'Not signed with a trusted key', the
\* trust store untouched; it does not stay at the prompt
C9_EmptyOrNoFails ==
    (Asked /\ ~NoValid(confirm.sigs) /\ confirm.prompts > 0
       /\ (confirm.answer = <<>> \/ InString(confirm.answer, <<"N", "n">>)))
        => /\ confirm.outcome = "SafeException: Not signed with a trusted key"
           /\ confirm.pc = "idle"
           /\ NoTrustWritten

\* C9 (amended): with a valid signature, an answer in 'Nn' makes
\* confirm_trust_keys fail with 'Not signed with a trusted key'; an empty
\* answer (and any answer in neither 'Nn' nor 'Yy') is asked again; in both
\* cases, and as long as the call is prompting, neither trust_key nor notify
\* has been called and the trust store is as it was
C9_RefusalFailsEmptyAsksAgain ==
    (Asked /\ ~NoValid(confirm.sigs) /\ confirm.prompts > 0
       /\ confirm.outcome # "EOFError")
        => /\ (confirm.answer # <<>> /\ InString(confirm.answer, <<"N", "n">>))
                 => /\ confirm.outcome = "SafeException: Not signed with a trusted key"
                    /\ confirm.pc = "idle"
                    /\ NoTrustWritten
           /\ (confirm.answer = <<>>)
                 => /\ confirm.outcome = "prompt"
                    /\ confirm.pc = "prompt"
                    /\ NoTrustWritten
           /\ (confirm.pc = "prompt") => NoTrustWritten

C9_Witness ==
    /\ confirm.outcome = "SafeException: Not signed with a trusted key"
    /\ confirm.prompts = 2
    /\ Len(SelectSeq(confirm.sigs, LAMBDA s : s.valid)) = 2
    /\ trust_db # {}

(* ================= run.py: the binding stage ================= *)
\* bindings in one <implementation> or <requires> element
MaxBindings == 1
\* runs of the binding stage on one Selections object
MaxRuns == 2

NAMES == {"PATH", "LIB"}
MODES == {"prepend", "append", "replace"}

\* bindings of the root implementation and of its <requires>: the
\* EnvironmentBindings on PATH, and a Binding of another class
BINDINGS ==
    [kind : {"environment"}, name : {"PATH"}, mode : MODES, insert : {"bin"}]
        \cup {[kind |-> "other", name |-> "PATH", mode |-> "replace", insert |-> "bin"]}

BindingLists == UNION {[1..n -> BINDINGS] : n \in 0..MaxBindings}

\* bindings of the dependency's own implementation: none, or one on LIB
LibBindingLists ==
    {<<>>} \cup {<<b>> : b \in [kind : {"environment"}, name : {"LIB"},
                                mode : MODES, insert : {"lib"}]}

\* implementation ids: an absolute local path, a digest, a distribution package
RootIds == {[kind |-> "digest", name |-> "sha1=r"], [kind |-> "abs", name |-> "/local/r"]}
LibIds == {[kind |-> "digest", name |-> "sha1=l"], [kind |-> "package", name |-> "package:l"]}

\* a root implementation with one dependency; the dependency's own bindings
\* set LIB, and a package implementation has no bindings of its own
SelectionSets ==
    {[interface |-> "root", order |-> order,
      selections |-> [i \in {"root", "lib"} |->
          IF i = "root"
          THEN [id |-> rid, bindings |-> own,
                dependencies |-> <<[interface |-> "lib", bindings |-> dep]>>]
          ELSE [id |-> lid, bindings |-> lib, dependencies |-> <<>>]]] :
       order \in {<<"root", "lib">>, <<"lib", "root">>},
       rid \in RootIds, lid \in LibIds,
       own \in BindingLists, dep \in BindingLists,
       lib \in LibBindingLists}

ValidSelections(sel) ==
    sel.selections["lib"].id.kind = "package" => sel.selections["lib"].bindings = <<>>

\* os.environ at the start: PATH may be set
Environments == {<<>>, [n \in {"PATH"} |-> << <<"/usr", "bin">> >>]}

\* iface_cache.stores.lookup(id): the directory of a cached implementation
lookup(id) == <<"/cache", id.name>>

\* _get_implementation_path(id)
get_implementation_path(id) ==
    IF id.kind = "abs" THEN <<id.name>> ELSE lookup(id)

\* os.environ.get(name, None): <<value>>, or <<>> for None
environ_get(env, name) == IF name \in DOMAIN env THEN <<env[name]>> ELSE <<>>

\* EnvironmentBinding.get_value(path, old_value)
get_value(binding, path, old_value) ==
    LET extra == path \o <<binding.insert>>
    IN IF binding.mode = "replace" \/ old_value = <<>> THEN <<extra>>
       ELSE IF binding.mode = "prepend" THEN <<extra>> \o old_value[1]
       ELSE old_value[1] \o <<extra>>

\* do_env_binding that does not pass the current value on
do_env_binding_unseeded(env, binding, path) ==
    SetItem(env, binding.name, get_value(binding, path, <<>>))

\* do_env_binding(binding, path)
do_env_binding(env, binding, path) ==
    SetItem(env, binding.name,
            get_value(binding, path, environ_get(env, binding.name)))

\* _do_bindings(impl, bindings)
RECURSIVE do_bindings(_, _, _)
do_bindings(env, impl, bindings) ==
    IF bindings = <<>> THEN env
    ELSE LET b == Head(bindings)
             env1 == IF b.kind = "environment"
                     THEN do_env_binding(env, b, get_implementation_path(impl.id))
                     ELSE env
         IN do_bindings(env1, impl, Tail(bindings))

\* for dep in selection.dependencies: ...
RECURSIVE do_dependencies(_, _, _)
do_dependencies(env, sels, deps) ==
    IF deps = <<>> THEN env
    ELSE LET dep == Head(deps)
             dep_impl == sels[dep.interface]
             env1 == IF dep_impl.id.kind # "package"
                     THEN do_bindings(env, dep_impl, dep.bindings)
                     ELSE env
         IN do_dependencies(env1, sels, Tail(deps))

\* for selection in sels.values(): ...   (order: the dict's iteration order)
RECURSIVE do_selections(_, _, _)
do_selections(env, sels, order) ==
    IF order = <<>> THEN env
    ELSE LET selection == sels[Head(order)]
             env1 == do_bindings(env, selection, selection.bindings)
             env2 == do_dependencies(env1, sels, selection.dependencies)
         IN do_selections(env2, sels, Tail(order))

InitSelections ==
    /\ selections \in {sel \in SelectionSets : ValidSelections(sel)}
    /\ environ \in Environments
    /\ applied = [runs |-> 0, start |-> environ, once |-> <<>>]
    /\ launch = NoLaunch

\* execute_selections, lines 58-64
ApplyBindings ==
    /\ applied.runs < MaxRuns
    /\ environ' = do_selections(environ, selections.selections, selections.order)
    /\ applied' = [applied EXCEPT
                      !.runs = @ + 1,
                      !.once = IF applied.runs = 0 THEN environ' ELSE @]
    /\ UNCHANGED <<selections, launch>>
    /\ HandlerIdle
    /\ TrustIdle

InitExecute ==
    /\ InitHandler
    /\ InitTrustDb
    /\ InitSelections

NextRun ==
    \/ ApplyBindings

SpecRun == InitExecute /\ [][NextRun]_vars

(* ======================= claims on the binding stage ======================= *)
\* the EnvironmentBindings execute_selections applies, in the order it applies them
SelectionBindings(i) ==
    LET sel == selections.selections[i]
        dep == sel.dependencies
        target(k) == selections.selections[dep[k].interface]
        depBindings[k \in 0..Len(dep)] ==
            IF k = 0 THEN <<>>
            ELSE depBindings[k - 1] \o
                 (IF target(k).id.kind = "package" THEN <<>> ELSE dep[k].bindings)
    IN sel.bindings \o depBindings[Len(dep)]

Applications ==
    LET all[k \in 0..Len(selections.order)] ==
            IF k = 0 THEN <<>>
            ELSE all[k - 1] \o SelectionBindings(selections.order[k])
    IN SelectSeq(all[Len(selections.order)], LAMBDA b : b.kind = "environment")

\* the combination rules of the bindings applied to a variable
ModesOn(name) ==
    {Applications[k].mode :
        k \in {j \in 1..Len(Applications) : Applications[j].name = name}}

\* C10 (as stated): running the binding stage again leaves every environment
\* variable with the value it had after the first run
C10_BindingIdempotent ==
    applied.runs >= 2 => environ = applied.once

\* C10 (amended): running the binding stage again leaves a variable with the
\* value it had after the first run exactly when no binding names it or one
\* of its bindings has the replace rule; a variable with only prepend and
\* append bindings gets their paths inserted once more and its value grows
C10_IdempotentOnlyWithReplace ==
    applied.runs >= 2 =>
        /\ DOMAIN environ = DOMAIN applied.once
        /\ \A name \in NAMES :
              /\ ModesOn(name) = {} =>
                    environ_get(environ, name) = environ_get(applied.start, name)
              /\ "replace" \in ModesOn(name) =>
                    environ[name] = applied.once[name]
              /\ (ModesOn(name) # {} /\ "replace" \notin ModesOn(name)) =>
                    Len(environ[name]) > Len(applied.once[name])

C10_Witness ==
    /\ applied.runs = 2
    /\ ModesOn("PATH") = {"replace", "prepend"}
    /\ ModesOn("LIB") = {"append"}
    /\ environ["PATH"] = applied.once["PATH"]
    /\ Len(environ["LIB"]) = 2 /\ Len(applied.once["LIB"]) = 1

(* ================= run.py: launching the program ================= *)
\* strings are sequences of tokens; "/" is the path separator
Truthy(opt) == opt # <<>> /\ opt[1] # <<>>

\* s.startswith('/')
startswith_slash(s) == s # <<>> /\ s[1] = "/"

\* s.rstrip('/')
RECURSIVE rstrip_slash(_)
rstrip_slash(s) ==
    IF s # <<>> /\ s[Len(s)] = "/" THEN rstrip_slash(SubSeq(s, 1, Len(s) - 1)) ELSE s

\* os.path.dirname(p)
dirname(p) ==
    LET slashes == {i \in 1..Len(p) : p[i] = "/"}
        i == IF slashes = {} THEN 0 ELSE CHOOSE k \in slashes : \A j \in slashes : j <= k
        head == SubSeq(p, 1, i)
    IN IF head # <<>> /\ \E j \in 1..Len(head) : head[j] # "/"
       THEN rstrip_slash(head) ELSE head

\* os.path.join(a, b)
join(a, b) ==
    IF startswith_slash(b) THEN b
    ELSE IF a = <<>> \/ a[Len(a)] = "/" THEN a \o b
    ELSE a \o <<"/">> \o b

\* the main argument: None, '', '/', an absolute path, a relative path
OverrideMains == {<<>>, << <<>> >>, << <<"/">> >>, << <<"/", "alt">> >>, << <<"alt">> >>}
\* the implementation's main attribute: None, a file, a file in a directory
DeclaredMains == {<<>>, << <<"prog">> >>, << <<"bin", "/", "prog">> >>}
\* the wrapper argument: None, '', a command
Wrappers == {<<>>, << <<>> >>, << <<"gdb">> >>}
ProgArgs == {<<>>, << <<"x">>, <<"y">> >>}

\* lines 111-122 of _execute: main, and prog_path where it gets assigned
entry_point(root_impl, main) ==
    LET package == root_impl.id.kind = "package"
        main1 == IF package THEN (IF Truthy(main) THEN main ELSE root_impl.main)
                 ELSE IF main = <<>> THEN root_impl.main
                 ELSE IF startswith_slash(main[1]) THEN <<Tail(main[1])>>
                 ELSE IF Truthy(root_impl.main)
                      THEN <<join(dirname(root_impl.main[1]), main[1])>>
                      ELSE main
    IN [main |-> main1,
        prog_path |-> IF package THEN main1
                      ELSE IF Truthy(main1)
                           THEN <<join(get_implementation_path(root_impl.id), main1[1])>>
                           ELSE <<>>,
        assigned |-> package \/ Truthy(main1),
        trace |-> IF ~package /\ Truthy(main1) /\ root_impl.id.kind # "abs"
                  THEN <<"lookup">> ELSE <<>>]

\* a wrapper placed behind the program's arguments
wrap_args_last(wrapper, prog_path, prog_args) ==
    IF Truthy(wrapper)
    THEN [path |-> <<"/bin/sh">>,
          args |-> prog_args \o << <<"-c">>, wrapper[1] \o <<" \"$@\"">>, <<"-">>, prog_path>>]
    ELSE [path |-> prog_path, args |-> prog_args]

\* lines 133-135 of _execute
wrap(wrapper, prog_path, prog_args) ==
    IF Truthy(wrapper)
    THEN [path |-> <<"/bin/sh">>,
          args |-> << <<"-c">>, wrapper[1] \o <<" \"$@\"">>, <<"-">>, prog_path>> \o prog_args]
    ELSE [path |-> prog_path, args |-> prog_args]

Raise(e, outcome, error, trace) ==
    [outcome |-> outcome, main |-> e.main, prog_path |-> e.prog_path,
     command |-> <<>>, error |-> error, trace |-> trace]

\* lines 133-146 of _execute
run_command(e, prog_args, dry_run, wrapper, execl, trace) ==
    LET command == wrap(wrapper, e.prog_path[1], prog_args)
    IN [outcome |-> IF dry_run THEN "report"
                    ELSE IF execl = "ok" THEN "replaced" ELSE "LaunchFailure",
        main |-> e.main, prog_path |-> e.prog_path, command |-> <<command>>,
        error |-> <<>>,
        trace |-> trace \o <<IF dry_run THEN "print" ELSE "execl">>]

\* _execute without the test of main against None
execute_no_main_test(root_impl, prog_args, dry_run, main, wrapper, exists, execl) ==
    LET e == entry_point(root_impl, main)
    IN IF ~e.assigned \/ e.prog_path = <<>>
       THEN Raise(e, "UnboundLocalError", <<>>, e.trace)
       ELSE IF ~exists
       THEN Raise(e, "MissingExecutableFile",
                  <<[path |-> e.prog_path[1], id |-> root_impl.id, main |-> e.main[1]]>>,
                  e.trace \o <<"exists">>)
       ELSE run_command(e, prog_args, dry_run, wrapper, execl, e.trace \o <<"exists">>)

\* _execute that reports a dry run before it looks for the file
execute_report_first(root_impl, prog_args, dry_run, main, wrapper, exists, execl) ==
    LET e == entry_point(root_impl, main)
    IN IF e.main = <<>>
       THEN Raise(e, "MissingEntryPoint", <<>>, e.trace)
       ELSE IF ~e.assigned
       THEN Raise(e, "UnboundLocalError", <<>>, e.trace)
       ELSE IF dry_run
       THEN run_command(e, prog_args, dry_run, wrapper, execl, e.trace)
       ELSE IF ~exists
       THEN Raise(e, "MissingExecutableFile",
                  <<[path |-> e.prog_path[1], id |-> root_impl.id, main |-> e.main[1]]>>,
                  e.trace \o <<"exists">>)
       ELSE run_command(e, prog_args, dry_run, wrapper, execl, e.trace \o <<"exists">>)

\* _execute(root_impl, prog_args, dry_run, main, wrapper); exists is what
\* os.path.exists(prog_path) answers, execl is how os.execl ends
execute_root(root_impl, prog_args, dry_run, main, wrapper, exists, execl) ==
    LET e == entry_point(root_impl, main)
    IN IF e.main = <<>>
       THEN Raise(e, "MissingEntryPoint", <<>>, e.trace)
       ELSE IF ~e.assigned
       THEN Raise(e, "UnboundLocalError", <<>>, e.trace)
       ELSE IF ~exists
       THEN Raise(e, "MissingExecutableFile",
                  <<[path |-> e.prog_path[1], id |-> root_impl.id, main |-> e.main[1]]>>,
                  e.trace \o <<"exists">>)
       ELSE run_command(e, prog_args, dry_run, wrapper, execl, e.trace \o <<"exists">>)

\* the selections handed to a launch: a root implementation of every kind of
\* id with one dependency, both cached
LaunchRootIds == RootIds \cup {[kind |-> "package", name |-> "package:r"]}
DepBindingLists ==
    {<<>>, <<[kind |-> "environment", name |-> "LIB", mode |-> "prepend", insert |-> "lib"]>>}

LaunchSelections ==
    {[interface |-> "root", order |-> <<"root", "lib">>,
      selections |-> [i \in {"root", "lib"} |->
          IF i = "root"
          THEN [id |-> rid, main |-> declared, bindings |-> own,
                dependencies |-> <<[interface |-> "lib", bindings |-> dep]>>]
          ELSE [id |-> [kind |-> "digest", name |-> "sha1=l"], main |-> <<>>,
                bindings |-> <<>>, dependencies |-> <<>>]]] :
       rid \in LaunchRootIds, declared \in DeclaredMains,
       own \in BindingLists, dep \in DepBindingLists}

\* a distribution package is in no cache: it carries no bindings of its own
ValidLaunch(sel) ==
    sel.selections["root"].id.kind = "package" => sel.selections["root"].bindings = <<>>

InitLaunchSelections ==
    /\ selections \in {sel \in LaunchSelections : ValidLaunch(sel)}
    /\ environ \in Environments
    /\ applied = [runs |-> 0, start |-> environ, once |-> <<>>]
    /\ launch = NoLaunch

\* sels[selections.interface]
root_impl == selections.selections[selections.interface]

\* execute_selections(selections, prog_args, dry_run, main, wrapper)
CallExecuteSelections(prog_args, dry_run, main, wrapper, exists, execl) ==
    /\ launch.fn = "none"
    /\ environ' = do_selections(environ, selections.selections, selections.order)
    /\ applied' = [applied EXCEPT !.runs = @ + 1, !.once = environ']
    /\ launch' = [fn |-> "execute_selections", prog_args |-> prog_args,
                  dry_run |-> dry_run, main |-> main, wrapper |-> wrapper,
                  passed |-> wrapper, exists |-> exists, execl |-> execl,
                  result |-> execute_root(root_impl, prog_args, dry_run, main,
                                          wrapper, exists, execl)]
    /\ UNCHANGED selections
    /\ HandlerIdle
    /\ TrustIdle

\* test_selections(selections, prog_args, dry_run, main, wrapper): the forked
\* child calls execute_selections(selections, prog_args, dry_run, main); the
\* parent's os.environ is not the child's
CallTestSelections(prog_args, dry_run, main, wrapper, exists, execl) ==
    /\ launch.fn = "none"
    /\ launch' = [fn |-> "test_selections", prog_args |-> prog_args,
                  dry_run |-> dry_run, main |-> main, wrapper |-> wrapper,
                  passed |-> <<>>, exists |-> exists, execl |-> execl,
                  result |-> execute_root(root_impl, prog_args, dry_run, main,
                                          <<>>, exists, execl)]
    /\ UNCHANGED <<selections, environ, applied>>
    /\ HandlerIdle
    /\ TrustIdle

InitLaunch ==
    /\ InitHandler
    /\ InitTrustDb
    /\ InitLaunchSelections

NextLaunch ==
    \/ \E prog_args \in ProgArgs, dry_run \in BOOLEAN, main \in OverrideMains,
          wrapper \in Wrappers, exists \in BOOLEAN, execl \in {"ok", "OSError"} :
          CallExecuteSelections(prog_args, dry_run, main, wrapper, exists, execl)
    \/ \E prog_args \in ProgArgs, dry_run \in BOOLEAN, main \in OverrideMains,
          wrapper \in Wrappers, exists \in BOOLEAN, execl \in {"ok", "OSError"} :
          CallTestSelections(prog_args, dry_run, main, wrapper, exists, execl)

SpecLaunch == InitLaunch /\ [][NextLaunch]_vars

(* ----------------- claims on launching the program ----------------- *)
Launched == launch.result.outcome \in {"report", "replaced", "LaunchFailure"}
Did(step) == \E i \in 1..Len(launch.result.trace) : launch.result.trace[i] = step

\* C11: a dry run of execute_selections without a wrapper, on a root with one
\* dependency that are both cached, returns normally with the computed
\* command, leaves every environment variable at the value it had before
\* the call, and replaces no process image
C11_DryRunNoSideEffects ==
    (/\ launch.fn = "execute_selections"
     /\ launch.dry_run
     /\ launch.wrapper = <<>>
     /\ launch.result.outcome = "report")
        => /\ launch.result.command =
                 <<[path |-> launch.result.prog_path[1], args |-> launch.prog_args]>>
           /\ ~Did("execl")
           /\ environ = applied.start

\* C12: when the root implementation declares no main and no override main
\* is given, _execute fails with MissingEntryPoint and performs no
\* file-existence check, no cache lookup, no dry-run report and no launch,
\* whatever the kind of the implementation's id
C12_NoMainNoLaunch ==
    (launch.fn # "none" /\ launch.main = <<>> /\ root_impl.main = <<>>)
        => /\ launch.result.outcome = "MissingEntryPoint"
           /\ launch.result.trace = <<>>
           /\ launch.result.command = <<>>

C12_Witness ==
    /\ launch.fn = "execute_selections"
    /\ launch.main = <<>> /\ root_impl.main = <<>>
    /\ root_impl.id.kind = "digest"
    /\ launch.exists /\ ~launch.dry_run
    /\ launch.result.outcome = "MissingEntryPoint"

\* C13: with a wrapper the launched command is /bin/sh with the arguments
\* -c, wrapper + ' "$@"', -, the entry point, then prog_args in order;
\* without a wrapper it is the entry point followed by prog_args unchanged
C13_CommandShape ==
    Launched =>
        LET entry == launch.result.prog_path[1]
        IN launch.result.command =
              IF Truthy(launch.passed)
              THEN <<[path |-> <<"/bin/sh">>,
                      args |-> << <<"-c">>, launch.passed[1] \o <<" \"$@\"">>,
                                  <<"-">>, entry>> \o launch.prog_args]>>
              ELSE <<[path |-> entry, args |-> launch.prog_args]>>

C13_Witness ==
    /\ launch.result.outcome = "replaced"
    /\ launch.passed = << <<"gdb">> >>
    /\ Len(launch.prog_args) = 2
    /\ launch.result.command[1].path = <<"/bin/sh">>
    /\ Len(launch.result.command[1].args) = 6

\* C14: whenever the computed entry-point file does not exist, _execute
\* fails with MissingExecutableFile carrying the implementation id and the
\* computed path, in dry-run and in live mode, with and without a wrapper,
\* and neither the dry-run report nor the process replacement happens
C14_MissingFileIsReported ==
    (/\ launch.fn # "none"
     /\ entry_point(root_impl, launch.main).main # <<>>
     /\ entry_point(root_impl, launch.main).assigned
     /\ ~launch.exists)
        => /\ launch.result.outcome = "MissingExecutableFile"
           /\ launch.result.error # <<>>
           /\ launch.result.error[1].id = root_impl.id
           /\ launch.result.error[1].path = launch.result.prog_path[1]
           /\ ~Did("print") /\ ~Did("execl")
           /\ launch.result.command = <<>>

C14_Witness ==
    /\ launch.fn = "execute_selections"
    /\ launch.dry_run
    /\ Truthy(launch.passed)
    /\ ~launch.exists
    /\ launch.result.outcome = "MissingExecutableFile"
    /\ launch.result.error[1].path = <<"/cache", "sha1=r", "/", "bin", "/", "alt">>

\* C15: test_selections runs the launch that execute_selections resolves
\* for the same selections, prog_args, dry_run, main and wrapper, the
\* wrapper included when one is set
C15_TestRunsSameLaunch ==
    launch.fn = "test_selections"
        => launch.result = execute_root(root_impl, launch.prog_args, launch.dry_run,
                                        launch.main, launch.wrapper,
                                        launch.exists, launch.execl)

\* C19: every _execute call ends in exactly one of MissingEntryPoint,
\* MissingExecutableFile, dry-run report, process replacement, LaunchFailure,
\* and for every override main, declared main and kind of id the entry-point
\* path is assigned before the file-existence check reads it
C19_ClassifiedOutcome ==
    launch.fn # "none"
        => /\ launch.result.outcome \in
                 {"MissingEntryPoint", "MissingExecutableFile", "report",
                  "replaced", "LaunchFailure"}
           /\ Did("exists") => launch.result.prog_path # <<>>

(* ======================= claims on the Handler ======================= *)
HasCall(name) == \E i \in 1..Len(calls) : calls[i][1] = name
IndexOf(c) == CHOOSE i \in 1..Len(calls) : calls[i] = c
InFlight == {d \in 1..Len(downloads) : downloads[d].status = "downloading"}
WaitFrames == {i \in 1..Len(stack) : stack[i].kind = "wait"}

C2_AbortBeforeRestart ==
    (last.op = "get_download" /\ last.force /\ last.prior # None)
        => /\ last.dl # last.prior
           /\ calls = <<Call("abort", last.prior), Call("Download", last.dl),
                        Call("start", last.dl), Call("io_add_watch", last.dl)>>
           /\ IndexOf(Call("abort", last.prior)) < IndexOf(Call("Download", last.dl))
           /\ IndexOf(Call("abort", last.prior)) < IndexOf(Call("start", last.dl))
           /\ downloads[last.prior].status = "aborted"
           /\ downloads[last.dl].status = "downloading"
           /\ monitored_downloads[last.url] = last.dl

C2_Witness ==
    /\ last.op = "get_download" /\ last.force /\ last.prior # None
    /\ downloads[last.prior].status = "aborted"
    /\ downloads[last.dl].status = "downloading"

\* C3: no two Downloads for the same URL are in flight (started, not aborted,
\* end-of-stream not delivered) at the same time
C3_OneActivePerUrl ==
    \A d1, d2 \in InFlight : downloads[d1].url = downloads[d2].url => d1 = d2

\* C4: when _error_stream_ready tells the nested loop to quit, no Download
\* started through the Handler is still in flight
C4_QuitOnlyWhenAllDone ==
    (last.op = "close_done" /\ last.outcome = "quit") => InFlight = {}

\* C5 (as stated): a wait_for_downloads call made while an earlier call is
\* still active fails with an assertion error, whatever the table holds
C5_ReentryAlwaysAsserts ==
    (last.op = "wait_for_downloads" /\ last.nested)
        => last.outcome = "AssertionError"

\* C5 (amended): a wait_for_downloads call made while an earlier call is still
\* active fails with an assertion error when the table is not empty and
\* returns at once when it is empty; either way it creates no main loop, and
\* no two nested loops of wait_for_downloads ever run at the same time
C5_ReentryNeverNests ==
    /\ (last.op = "wait_for_downloads" /\ last.nested)
          => /\ last.outcome = (IF last.empty THEN "return" ELSE "AssertionError")
             /\ ~HasCall("MainLoop")
             /\ ~HasCall("run")
    /\ Cardinality(WaitFrames) <= 1

C5_Witness ==
    /\ last.op = "wait_for_downloads" /\ last.nested /\ ~last.empty
    /\ last.outcome = "AssertionError"
    /\ Top.kind = "close"

\* C6 (as stated): wait_for_downloads called with an empty table returns at
\* once, creates no main loop, and _loop is None and the table empty afterwards
C6_EmptyLeavesLoopNone ==
    (last.op = "wait_for_downloads" /\ last.empty)
        => /\ last.outcome = "return"
           /\ ~HasCall("MainLoop")
           /\ loop = "None"
           /\ DOMAIN monitored_downloads = {}

\* C6 (amended): wait_for_downloads called with an empty table returns at
\* once, creates no main loop and leaves _loop, the table and the call stack
\* as they were; _loop is None afterwards unless an earlier wait_for_downloads
\* call is still active
C6_EmptyChangesNothing ==
    [][(last'.op = "wait_for_downloads" /\ DOMAIN monitored_downloads = {})
         => /\ last'.outcome = "return"
            /\ calls' = <<>>
            /\ loop' = loop
            /\ monitored_downloads' = monitored_downloads
            /\ stack' = stack
            /\ (~WaitActive => loop' = "None")]_vars

C6_Witness ==
    /\ last.op = "wait_for_downloads" /\ last.empty /\ ~last.nested
    /\ last.outcome = "return"
    /\ loop = "None"
    /\ downloads # <<>>

\* the last step was an end-of-stream handled by _error_stream_ready
EofHandled == last.op = "error_stream_ready" /\ last.outcome \in {"closing", "KeyError"}
Count(name) == Cardinality({i \in 1..Len(calls) : calls[i][1] = name})

\* C16: a forced restart releases the aborted Download's watch before the
\* table entry is replaced; no event of the aborted Download is handled
\* afterwards, so the replacement's entry is removed only by the
\* replacement's own end-of-stream, and that end-of-stream finds the entry
C16_RestartIsolatesReplacement ==
    /\ (last.op = "get_download" /\ last.force /\ last.prior # None)
          => /\ last.prior \notin watches
             /\ IndexOf(Call("abort", last.prior)) < IndexOf(Call("io_add_watch", last.dl))
    /\ last.op = "error_stream_ready" => downloads[last.dl].status # "aborted"
    /\ EofHandled =>
          /\ last.dl \in replacement => last.prior = last.dl
          /\ last.prior \in replacement => last.prior = last.dl

\* C17: an exception raised by the close handler is passed to report_error
\* exactly once and does not leave _error_stream_ready: the Download is
\* still out of the table, its watch is removed (the callback returns
\* False), and the loop is told to quit if a wait is active and the table
\* is empty
C17_CloseErrorIsReported ==
    (last.op = "close_done" /\ last.force)
        => /\ Count("report_error") = 1
           /\ HasCall("report_error") => calls[1] = Call("report_error", last.dl)
           /\ last.outcome \in {"quit", "False"}
           /\ \A u \in DOMAIN monitored_downloads : monitored_downloads[u] # last.dl
           /\ last.dl \notin watches
           /\ (last.nested /\ last.empty) => (HasCall("quit") /\ loop = "quit")
           /\ HasCall("quit") => (last.nested /\ last.empty)

C17_Witness ==
    /\ last.op = "close_done" /\ last.force
    /\ last.nested /\ last.empty
    /\ calls = <<Call("report_error", last.dl), Call("quit", last.dl)>>

\* C18: for every Download, each non-empty read is forwarded by one
\* error_stream_data call before the next read, and leaves the table and
\* the watch as they are; error_stream_closed is called exactly once, when
\* the end of the stream is read; no error_stream_data follows it
C18_StreamEventOrder ==
    /\ (last.op = "error_stream_ready" /\ last.outcome = "True")
          => /\ calls = <<Call("error_stream_data", last.dl)>>
             /\ downloads[last.dl].status = "downloading"
             /\ last.dl \in watches
             /\ Tracked(last.url) = last.prior
    /\ EofHandled => calls = <<Call("error_stream_closed", last.dl)>>
    /\ \A d \in 1..Len(downloads) :
          /\ downloads[d].status # "eof"
          /\ (downloads[d].status = "closed" /\ d \notin InCallback) => d \notin watches

\* C20: a wait_for_downloads call that runs the loop returns once every
\* started Download has reached its end-of-stream, and whenever it returns,
\* normally or by an exception, _loop is None again and a later
\* wait_for_downloads can run the loop
C20_WaitReturns ==
    /\ WaitActive ~> ~WaitActive
    /\ [](last.op = "wait_return" =>
             /\ loop = "None"
             /\ ~WaitActive
             /\ wait_for_downloads(monitored_downloads, loop)
                    = (IF DOMAIN monitored_downloads = {} THEN "return" ELSE "run"))

C20_Witness ==
    /\ last.op = "wait_return" /\ last.outcome = "return"
    /\ loop = "None"
    /\ Len(downloads) = 2
    /\ \A d \in 1..Len(downloads) : downloads[d].status = "closed"

TypeOK ==
    /\ Len(downloads) <= MaxDownloads
    /\ \A u \in DOMAIN monitored_downloads :
          monitored_downloads[u] \in 1..Len(downloads)
    /\ watches \subseteq 1..Len(downloads)
    /\ loop \in {"None", "running", "quit"}
    /\ Len(stack) <= MaxDepth
====
